---------------------------- MODULE Spec2Model ----------------------------
(***************************************************************************)
(* Model of src/training/forward_func.py (DenseSeg): the per-class loss    *)
(* functions landmark_uv_loss, balanced_normalized_uv_loss and             *)
(* total_variation, and the epoch drivers forward, forward_heatmap and     *)
(* forward_heatmap_and_seg.                                                *)
(*                                                                         *)
(* Numbers are exact rationals <<numerator, denominator>>; the float NaN   *)
(* is the pair <<0, 0>>.  Floating-point rounding is not modelled.         *)
(* Tensors are functions over their index sets, laid out as in the source: *)
(*   uv[b][c][k][y][x]   (B, C, UV, H, W)                                  *)
(*   mask[b][c][y][x]    (B, C, H, W)                                      *)
(*   landmarks[b][n]     (B, N, 2), a pair <<x, y>> of pixel coordinates   *)
(*   landmark_uv_values[c][n][k]   list over classes of (N_c, 2)           *)
(***************************************************************************)
EXTENDS Integers, Sequences, FiniteSets, TLC

VARIABLES
    \* ---- one epoch pass (forward / forward_heatmap / forward_heatmap_and_seg)
    fn,             \* which driver is running
    mode,           \* the mode argument
    lambdas,        \* [lambda_bce, lambda_reg_uv, lambda_tv] (forward only)
    supervision,    \* the supervision argument (forward only)
    data_aug,       \* TRUE iff a data_aug callable was passed
    uv_loss_fn,     \* the elementwise base loss passed to forward
    training0,      \* model.training when the driver is entered
    training,       \* model.training
    params,         \* version of the model/optimizer parameters
    data_loader,    \* the DataLoader: its dataset's order, batch_size, samples yielded
    cur,            \* the batch being processed (after .to(device) and data_aug)
    res,            \* the losses computed for cur by the forward block
    calls,          \* collaborator calls made so far, in order
    loss_collector, \* metrics.CumulativeAverage()
    tre_collector,  \* metrics.CumulativeAverage() (heatmap drivers)
    uv_l1,          \* metrics.LossMetric(uv_l1_loss) buffer
    tv,             \* metrics.LossMetric(total_variation) buffer
    reports,        \* what was reported to the logger, in order
    pc,             \* position in the driver
    err,            \* the exception that ended the pass, or "none"
    \* ---- direct calls of the loss functions
    args0,          \* the arguments as the caller built them
    args,           \* the same argument objects as they are now
    outs,           \* per loss function, the results of the calls made so far
    \* ---- the training script train_heatmap.py
    script          \* hp, fwd_kwargs and the epoch index of the script's loop

vars == <<fn, mode, lambdas, supervision, data_aug, uv_loss_fn, training0,
          training, params, data_loader, cur, res, calls, loss_collector,
          tre_collector, uv_l1, tv, reports, pc, err, args0, args, outs,
          script>>

driverVars == <<fn, mode, lambdas, supervision, data_aug, uv_loss_fn, training0,
                training, params, data_loader, cur, res, calls,
                loss_collector, tre_collector, uv_l1, tv, reports,
                pc, err>>

-----------------------------------------------------------------------------
(* Bounds of the model *)

\* classes (channels) of a correspondence map
NClasses == 2
\* image height and width in pixels
H == 2
W == 2
\* largest batch size
MaxBatch == 2
\* most samples a dataset holds
MaxSamples == 3

Classes == 1..NClasses
UVs == 1..2
Ys == 0..(H - 1)
Xs == 0..(W - 1)
Pixels == Ys \X Xs

-----------------------------------------------------------------------------
(* Exact rational arithmetic standing in for float tensors' elements *)

NaN == <<0, 0>>
IsNaN(v) == v[2] = 0
R(i) == <<i, 1>>

Abs(i) == IF i < 0 THEN -i ELSE i

RECURSIVE Gcd(_, _)
Gcd(a, b) == IF b = 0 THEN a ELSE Gcd(b, a % b)

Norm(n, d) ==
    IF d = 0 THEN NaN
    ELSE LET g == Gcd(Abs(n), Abs(d))
             s == IF d < 0 THEN -1 ELSE 1
         IN  <<(s * n) \div g, (s * d) \div g>>

RAdd(a, b) == IF IsNaN(a) \/ IsNaN(b) THEN NaN
              ELSE Norm(a[1] * b[2] + b[1] * a[2], a[2] * b[2])
RSub(a, b) == IF IsNaN(a) \/ IsNaN(b) THEN NaN
              ELSE Norm(a[1] * b[2] - b[1] * a[2], a[2] * b[2])
RMul(a, b) == IF IsNaN(a) \/ IsNaN(b) THEN NaN
              ELSE Norm(a[1] * b[1], a[2] * b[2])
RDiv(a, b) == IF IsNaN(a) \/ IsNaN(b) THEN NaN
              ELSE Norm(a[1] * b[2], a[2] * b[1])
RAbs(a) == <<Abs(a[1]), a[2]>>
\* a < b; every comparison with NaN is false, as for floats
RLt(a, b) == ~IsNaN(a) /\ ~IsNaN(b) /\ a[1] * b[2] < b[1] * a[2]
\* floor of a rational
RFloor(a) == a[1] \div a[2]

\* exact square root; the inputs of the model keep every radicand a square
ISqrt(n) == CHOOSE r \in 0..n : r * r = n
RSqrt(a) == IF IsNaN(a) THEN NaN ELSE <<ISqrt(a[1]), ISqrt(a[2])>>

\* sum of f over the index set S (torch's .sum over the flattened dims)
RECURSIVE RSum(_, _)
RSum(f, S) ==
    IF S = {} THEN R(0)
    ELSE LET i == CHOOSE j \in S : TRUE
         IN  RAdd(f[i], RSum(f, S \ {i}))

\* torch's .mean over the index set S: 0/0 = NaN over an empty set
RMean(f, S) == RDiv(RSum(f, S), R(Cardinality(S)))

\* the elementwise base loss loss_fn(input, target) with reduction 'none'
ElemLoss(loss_fn, a, b) ==
    IF loss_fn.kind = "L1" THEN RAbs(RSub(a, b))
    ELSE RMul(RSub(a, b), RSub(a, b))


-----------------------------------------------------------------------------
(* landmark_uv_loss *)

\* most landmarks a class has; class c has LmCount(c) of them (ragged groups)
MaxLm == 2
LmCount(c) == ((c - 1) % MaxLm) + 1

OkResult(v) == [ok |-> TRUE, err |-> "none", val |-> v]
Failure(e) == [ok |-> FALSE, err |-> e, val |-> <<>>]

\* kornia's normalize_pixel_coordinates(landmarks, H, W) for one point <<x, y>>
NormalizePixelCoordinates(p, height, width) ==
    <<RSub(RMul(RDiv(R(2), R(width - 1)), p[1]), R(1)),
      RSub(RMul(RDiv(R(2), R(height - 1)), p[2]), R(1))>>

\* anatomy_idx = cumsum([0] + N_c): the landmarks before class c
RECURSIVE AnatomyIdx(_, _)
AnatomyIdx(landmark_uv_values, c) ==
    IF c = 1 THEN 0
    ELSE AnatomyIdx(landmark_uv_values, c - 1) + Len(landmark_uv_values[c - 1])

\* (sample_point < -1) | (sample_point > 1), any over the last dim
OutsidePoint(p) ==
    \/ RLt(p[1], R(-1)) \/ RLt(R(1), p[1])
    \/ RLt(p[2], R(-1)) \/ RLt(R(1), p[2])

\* one pixel of a (UV, H, W) map with grid_sample's zero padding
PaddedPixel(map, k, y, x) ==
    IF y \in Ys /\ x \in Xs THEN map[k][y][x] ELSE R(0)

\* F.grid_sample(map, p, align_corners=True, mode='bilinear') at one
\* normalized point p = <<x, y>>, channel k
GridSample(map, p, k) ==
    LET ix == RMul(RDiv(RAdd(p[1], R(1)), R(2)), R(W - 1))
        iy == RMul(RDiv(RAdd(p[2], R(1)), R(2)), R(H - 1))
        x0 == RFloor(ix)
        y0 == RFloor(iy)
        wx1 == RSub(ix, R(x0))
        wy1 == RSub(iy, R(y0))
        wx0 == RSub(R(1), wx1)
        wy0 == RSub(R(1), wy1)
    IN  RAdd(RAdd(RMul(RMul(wy0, wx0), PaddedPixel(map, k, y0, x0)),
                  RMul(RMul(wy0, wx1), PaddedPixel(map, k, y0, x0 + 1))),
             RAdd(RMul(RMul(wy1, wx0), PaddedPixel(map, k, y0 + 1, x0)),
                  RMul(RMul(wy1, wx1), PaddedPixel(map, k, y0 + 1, x0 + 1))))

(* A tensor a local name is bound to: its values, and base = c when it is a  *)
(* view sharing the storage of landmark_uv_values[c], base = 0 when it owns  *)
(* fresh storage.                                                            *)
\* landmark_uv_values[c].unsqueeze(0).expand(B, -1, -1): a view, no copy
ExpandView(landmark_uv_values, c, B) ==
    [base |-> c, val |-> [b \in 1..B |-> landmark_uv_values[c]]]

\* a clone that forgets to copy: the result still shares the storage
CloneAliased(t) == t

\* .clone(): same values, fresh storage
Clone(t) == [base |-> 0, val |-> t.val]

\* the masked write left out
IndexPutNothing(t, outside_mask) == t.val

\* t[outside_mask] = 0 on a (B, N_c, 2) tensor: the values t holds afterwards
IndexPutZero(t, outside_mask) ==
    LET hit(b, n) == IF t.base = 0 THEN outside_mask[b][n]
                     ELSE \E bb \in DOMAIN outside_mask : outside_mask[bb][n]
    IN  [b \in DOMAIN t.val |->
            [n \in DOMAIN t.val[b] |->
                [k \in UVs |-> IF hit(b, n) THEN R(0) ELSE t.val[b][n][k]]]]

\* the same write seen from the caller's list: unchanged unless t is a view
WriteThrough(landmark_uv_values, t, outside_mask) ==
    IF t.base = 0 THEN landmark_uv_values
    ELSE [landmark_uv_values EXCEPT ![t.base] =
            [n \in DOMAIN @ |->
                [k \in UVs |->
                    IF \E b \in DOMAIN outside_mask : outside_mask[b][n]
                    THEN R(0) ELSE @[n][k]]]]

\* the body of `for c in range(C)`, for classes c..C; acc holds loss (B, C)
\* and the caller's landmark_uv_values list as it stands
RECURSIVE LandmarkLoop(_, _, _, _, _)
LandmarkLoop(c, acc, uv, landmarks, loss_fn) ==
    IF c > NClasses THEN acc
    ELSE
    LET B == Len(uv)
        lmuv == acc.landmark_uv_values
        start_idx == AnatomyIdx(lmuv, c)
        end_idx == AnatomyIdx(lmuv, c + 1)
        Nc == 1..(end_idx - start_idx)
        sample_point == [b \in 1..B |-> [n \in Nc |->
            NormalizePixelCoordinates(landmarks[b][start_idx + n], H, W)]]
        outside_mask == [b \in 1..B |-> [n \in Nc |->
            OutsidePoint(sample_point[b][n])]]
    IN  IF \A b \in 1..B : \A n \in Nc : outside_mask[b][n]
        THEN LandmarkLoop(c + 1, acc, uv, landmarks, loss_fn)
        ELSE
        LET sampled == [b \in 1..B |-> [n \in Nc |-> [k \in UVs |->
                GridSample(uv[b][c], sample_point[b][n], k)]]]
            uv_values == Clone(ExpandView(lmuv, c, B))
            uv_values_z == IndexPutZero(uv_values, outside_mask)
            uv_values_hat_z ==
                IndexPutZero([base |-> 0, val |-> sampled], outside_mask)
            elem(b) == [i \in Nc \X UVs |->
                ElemLoss(loss_fn, uv_values_hat_z[b][i[1]][i[2]],
                                  uv_values_z[b][i[1]][i[2]])]
        IN  LandmarkLoop(c + 1,
                [loss |-> [b \in 1..B |->
                     [acc.loss[b] EXCEPT ![c] = RMean(elem(b), Nc \X UVs)]],
                 landmark_uv_values |->
                     WriteThrough(lmuv, uv_values, outside_mask)],
                uv, landmarks, loss_fn)

UvHasNaN(uv) ==
    \E b \in DOMAIN uv : \E c \in Classes : \E k \in UVs : \E px \in Pixels :
        IsNaN(uv[b][c][k][px[1]][px[2]])

\* landmark_uv_loss(uv, landmarks, landmark_uv_values, loss_fn): the result,
\* and the landmark_uv_values list as the caller sees it after the call
LandmarkUvLoss(uv, landmarks, landmark_uv_values, loss_fn) ==
    IF loss_fn.reduction # "none"
    THEN [result |-> Failure("AssertionError: loss_fn must have reduction set to none"),
          landmark_uv_values |-> landmark_uv_values]
    ELSE IF UvHasNaN(uv)
    THEN [result |-> Failure("AssertionError: uv should not contain NaN values"),
          landmark_uv_values |-> landmark_uv_values]
    ELSE LET zeros == [b \in 1..Len(uv) |-> [c \in Classes |-> R(0)]]
             final == LandmarkLoop(1, [loss |-> zeros,
                                       landmark_uv_values |-> landmark_uv_values],
                                   uv, landmarks, loss_fn)
         IN  [result |-> OkResult(final.loss),
              landmark_uv_values |-> final.landmark_uv_values]

-----------------------------------------------------------------------------
(* balanced_normalized_uv_loss *)

UvAllNaN(uv) ==
    \A b \in DOMAIN uv : \A c \in Classes : \A k \in UVs : \A px \in Pixels :
        IsNaN(uv[b][c][k][px[1]][px[2]])

\* the flattened (UV * H * W) index of one (b, c) entry
Flat == UVs \X Ys \X Xs

\* with the division by the number of valid elements, without the + 1
BalancedEntryNoFloor(uv_hat_bc, uv_bc, loss_fn) ==
    LET nan_gt_mask == [i \in Flat |-> IsNaN(uv_bc[i[1]][i[2]][i[3]])]
        uv_flat == [i \in Flat |->
            IF nan_gt_mask[i] THEN R(0) ELSE uv_bc[i[1]][i[2]][i[3]]]
        uv_hat_flat == [i \in Flat |->
            IF nan_gt_mask[i] THEN R(0) ELSE uv_hat_bc[i[1]][i[2]][i[3]]]
        valid_pxl == Cardinality({i \in Flat : ~nan_gt_mask[i]})
        elem == [i \in Flat |-> ElemLoss(loss_fn, uv_hat_flat[i], uv_flat[i])]
    IN  RDiv(RSum(elem, Flat), R(valid_pxl))

\* one (b, c) entry of lines 119-130
BalancedEntry(uv_hat_bc, uv_bc, loss_fn) ==
    LET nan_gt_mask == [i \in Flat |-> IsNaN(uv_bc[i[1]][i[2]][i[3]])]
        uv_flat == [i \in Flat |->
            IF nan_gt_mask[i] THEN R(0) ELSE uv_bc[i[1]][i[2]][i[3]]]
        uv_hat_flat == [i \in Flat |->
            IF nan_gt_mask[i] THEN R(0) ELSE uv_hat_bc[i[1]][i[2]][i[3]]]
        valid_pxl == Cardinality({i \in Flat : ~nan_gt_mask[i]})
        elem == [i \in Flat |-> ElemLoss(loss_fn, uv_hat_flat[i], uv_flat[i])]
    IN  RDiv(RSum(elem, Flat), R(valid_pxl + 1))

BalancedNormalizedUvLoss(uv_hat, uv, loss_fn) ==
    IF loss_fn.reduction # "none"
    THEN Failure("AssertionError: loss_fn must have reduction set to none")
    ELSE IF UvAllNaN(uv)
    THEN Failure("AssertionError: uv must contain some valid values")
    ELSE OkResult([b \in 1..Len(uv) |-> [c \in Classes |->
            BalancedEntry(uv_hat[b][c], uv[b][c], loss_fn)]])

\* uv_l1_loss: the monitoring metric, the same function with an L1 base loss
UvL1Loss(uv_hat, uv) ==
    BalancedNormalizedUvLoss(uv_hat, uv, [kind |-> "L1", reduction |-> "none"])

-----------------------------------------------------------------------------
(* total_variation *)

\* torch.gradient along one axis with unit spacing and edge_order 1, at
\* position i of the values f over 0..n-1
Gradient1D(f, i, n) ==
    IF i = 0 THEN RSub(f[1], f[0])
    ELSE IF i = n - 1 THEN RSub(f[n - 1], f[n - 2])
    ELSE RDiv(RSub(f[i + 1], f[i - 1]), R(2))

\* lines 146-148 at one pixel of one (b, c) entry: the norm over the two
\* gradient directions, then the mean over the UV axis
GradientNormMean(uv_bc, y, x) ==
    LET norm(k) ==
            LET gy == Gradient1D([yy \in Ys |-> uv_bc[k][yy][x]], y, H)
                gx == Gradient1D([xx \in Xs |-> uv_bc[k][y][xx]], x, W)
            IN  RSqrt(RAdd(RMul(gy, gy), RMul(gx, gx)))
    IN  RMean([k \in UVs |-> norm(k)], UVs)

\* one (b, c) entry of lines 151-155
TotalVariationEntry(uv_bc, mask_bc) ==
    LET masked == [px \in Pixels |->
            IF mask_bc[px[1]][px[2]]
            THEN GradientNormMean(uv_bc, px[1], px[2]) ELSE R(0)]
        squared == [px \in Pixels |-> RMul(masked[px], masked[px])]
        n_mask == Cardinality({px \in Pixels : mask_bc[px[1]][px[2]]})
    IN  RDiv(RSum(squared, Pixels), R(n_mask + 1))

\* mask entries are booleans, so the dtype assertion holds by construction;
\* the shape assertion compares the batch and class dimensions
TotalVariation(uv, mask) ==
    IF Len(mask) # Len(uv)
    THEN Failure("AssertionError: mask must have the same shape as uv")
    ELSE OkResult([b \in 1..Len(uv) |-> [c \in Classes |->
            TotalVariationEntry(uv[b][c], mask[b][c])]])


-----------------------------------------------------------------------------
(* The inputs the model draws from.  A sample is one batch element; its    *)
(* kind fixes its segmentation, its ground-truth correspondence map, its   *)
(* landmarks and the correspondence map the network predicts for it.       *)
(*   full    every class covers every pixel, every landmark is in range    *)
(*   absent  no class is present: empty masks, ground truth all NaN,       *)
(*           every landmark out of range                                   *)
(*   mixed   odd classes cover the column x = 0, even classes are absent;  *)
(*           odd landmarks of a class are in range (between two pixels),   *)
(*           even ones out of range                                        *)

KindOrder == <<"full", "mixed", "absent">>
SampleKinds == {KindOrder[i] : i \in DOMAIN KindOrder}

SegOf(s, c, y, x) ==
    CASE s = "full" -> TRUE
      [] s = "absent" -> FALSE
      [] OTHER -> (c % 2 = 1) /\ (x = 0)

\* ground truth: u = x, v = y where the class is present, NaN elsewhere
GtUvOf(s, c, k, y, x) ==
    IF SegOf(s, c, y, x) THEN (IF k = 1 THEN R(x) ELSE R(y)) ELSE NaN

\* the network's prediction: finite everywhere
PredUvOf(s, c, k, y, x) ==
    CASE s = "full" -> IF k = 1 THEN R(3 * x + 4 * y + c) ELSE R(c)
      [] s = "absent" -> IF k = 1 THEN R(x + 1) ELSE R(y + 1)
      [] OTHER -> IF k = 1 THEN R(x) ELSE R(y)

\* landmark j of class c, in pixel coordinates <<x, y>>
LandmarkOf(s, c, j) ==
    CASE s = "full" -> <<R((j - 1) % W), R((c - 1) % H)>>
      [] s = "absent" -> <<R(-1), R(-1)>>
      [] OTHER -> IF j % 2 = 1 THEN <<Norm(1, 2), R(0)>> ELSE <<R(W), R(0)>>

\* the class and the index within the class of landmark n of the flat list
RECURSIVE ClassOfLandmark(_, _)
ClassOfLandmark(n, c) ==
    IF n <= LmCount(c) THEN <<c, n>> ELSE ClassOfLandmark(n - LmCount(c), c + 1)

RECURSIVE TotalLandmarks(_)
TotalLandmarks(c) == IF c = 0 THEN 0 ELSE TotalLandmarks(c - 1) + LmCount(c)

\* a batch is a non-empty sequence of sample kinds
Batches == UNION {[1..n -> SampleKinds] : n \in 1..MaxBatch}

SegTensor(kinds) ==
    [b \in DOMAIN kinds |-> [c \in Classes |-> [y \in Ys |-> [x \in Xs |->
        SegOf(kinds[b], c, y, x)]]]]
GtUvTensor(kinds) ==
    [b \in DOMAIN kinds |-> [c \in Classes |-> [k \in UVs |-> [y \in Ys |->
        [x \in Xs |-> GtUvOf(kinds[b], c, k, y, x)]]]]]
PredUvTensor(kinds) ==
    [b \in DOMAIN kinds |-> [c \in Classes |-> [k \in UVs |-> [y \in Ys |->
        [x \in Xs |-> PredUvOf(kinds[b], c, k, y, x)]]]]]
LandmarkTensor(kinds) ==
    [b \in DOMAIN kinds |-> [n \in 1..TotalLandmarks(NClasses) |->
        LET cj == ClassOfLandmark(n, 1) IN LandmarkOf(kinds[b], cj[1], cj[2])]]

\* lm_uv_values: the template's uv value of every landmark, per class
LmUvValues ==
    [c \in Classes |-> [n \in 1..LmCount(c) |->
        [k \in UVs |-> IF k = 1 THEN R(n) ELSE R(c)]]]

LossFns == [kind : {"L1", "MSE"}, reduction : {"none", "mean"}]

-----------------------------------------------------------------------------
(* Direct calls of the three loss functions on arguments the caller keeps. *)

\* calls of one function a caller makes in a row
MaxCalls == 2

NoDriver ==
    /\ fn = "none" /\ mode = "none" /\ lambdas = <<0, 0, 0>>
    /\ supervision = "none" /\ data_aug = FALSE
    /\ uv_loss_fn = [kind |-> "L1", reduction |-> "none"]
    /\ training0 = FALSE /\ training = FALSE /\ params = 0
    /\ data_loader = <<>> /\ cur = <<>> /\ res = <<>> /\ calls = <<>>
    /\ loss_collector = <<>> /\ tre_collector = <<>> /\ uv_l1 = <<>>
    /\ tv = <<>> /\ reports = <<>>
    /\ pc = "caller" /\ err = "none"

InitLoss ==
    /\ NoDriver
    /\ script = <<>>
    /\ \E kinds \in Batches : \E loss_fn \in LossFns :
          args0 = [uv_hat |-> PredUvTensor(kinds),
                   uv |-> GtUvTensor(kinds),
                   landmarks |-> LandmarkTensor(kinds),
                   mask |-> SegTensor(kinds),
                   landmark_uv_values |-> LmUvValues,
                   loss_fn |-> loss_fn]
    /\ args = args0
    /\ outs = [landmark_uv_loss |-> <<>>,
               balanced_normalized_uv_loss |-> <<>>,
               total_variation |-> <<>>]

CallLandmarkUvLoss ==
    /\ Len(outs.landmark_uv_loss) < MaxCalls
    /\ LET r == LandmarkUvLoss(args.uv_hat, args.landmarks,
                               args.landmark_uv_values, args.loss_fn)
       IN  /\ outs' = [outs EXCEPT !.landmark_uv_loss = Append(@, r.result)]
           /\ args' = [args EXCEPT !.landmark_uv_values = r.landmark_uv_values]
    /\ UNCHANGED <<driverVars, script, args0>>

CallBalancedNormalizedUvLoss ==
    /\ Len(outs.balanced_normalized_uv_loss) < MaxCalls
    /\ outs' = [outs EXCEPT !.balanced_normalized_uv_loss = Append(@,
                  BalancedNormalizedUvLoss(args.uv_hat, args.uv, args.loss_fn))]
    /\ UNCHANGED <<driverVars, script, args0, args>>

CallTotalVariation ==
    /\ Len(outs.total_variation) < MaxCalls
    /\ outs' = [outs EXCEPT !.total_variation = Append(@,
                  TotalVariation(args.uv_hat, args.mask))]
    /\ UNCHANGED <<driverVars, script, args0, args>>

NextLoss ==
    \/ CallLandmarkUvLoss
    \/ CallBalancedNormalizedUvLoss
    \/ CallTotalVariation

SpecLoss == InitLoss /\ [][NextLoss]_vars


-----------------------------------------------------------------------------
(* Collaborators of the epoch drivers *)

\* one call of a collaborator, as logged in calls
Call(op, arg) == [op |-> op, arg |-> arg]

(* monai.metrics.CumulativeAverage: val is <<>> (None) until the first      *)
(* append;                                                                  *)
(* a non-finite component is left out (its count is 0 for that append).     *)
CumulativeAverage == [val |-> <<>>, sum |-> <<>>, count |-> <<>>]

CumulativeAppend(ca, val, count) ==
    LET n == Len(val)
        old_sum == IF ca.val = <<>> THEN [i \in 1..n |-> R(0)] ELSE ca.sum
        old_count == IF ca.val = <<>> THEN [i \in 1..n |-> R(0)] ELSE ca.count
    IN  [val |-> val,
         sum |-> [i \in 1..n |->
                    IF IsNaN(val[i]) THEN old_sum[i]
                    ELSE RAdd(old_sum[i], RMul(R(count), val[i]))],
         count |-> [i \in 1..n |->
                    IF IsNaN(val[i]) THEN old_count[i]
                    ELSE RAdd(old_count[i], R(count))]]

\* aggregate() of a collector that has been appended to
CumulativeAggregate(ca) ==
    [i \in DOMAIN ca.sum |->
        IF RLt(R(0), ca.count[i]) THEN RDiv(ca.sum[i], ca.count[i])
        ELSE ca.sum[i]]

(* monai.metrics.LossMetric(f, reduction='mean_batch'): a buffer of the     *)
(* per-sample rows f returned; aggregate() is the per-class mean over the   *)
(* rows, NaN entries left out.                                              *)
MetricExtend(buffer, rows) == buffer \o rows

MetricAggregate(buffer) ==
    [c \in Classes |->
        LET good == {i \in DOMAIN buffer : ~IsNaN(buffer[i][c])}
        IN  IF good = {} THEN R(0)
            ELSE RMean([i \in good |-> buffer[i][c]], good)]

\* the mean of a (B, C) tensor, or of a per-class vector
Mean2(t) ==
    RMean([i \in (DOMAIN t) \X Classes |-> t[i[1]][i[2]]], (DOMAIN t) \X Classes)
Mean1(v) == RMean(v, DOMAIN v)

(* What the network and the losses this model does not compute return.     *)
(* The values stand for arbitrary finite results of the collaborators.     *)
\* F.binary_cross_entropy_with_logits(seg_hat, seg, pos_weight): per sample
BceOf(img) ==
    Mean1([b \in DOMAIN img |->
        CASE img[b] = "full" -> Norm(1, 2)
          [] img[b] = "absent" -> R(1)
          [] OTHER -> R(2)])

-----------------------------------------------------------------------------
(* forward: the loss composition of one batch, lines 199-210 *)

Modes == {"train", "val", "test", "predict"}
Supervisions == {"dense", "sparse", "semi"}
\* [lambda_bce, lambda_reg_uv, lambda_tv]
LambdaVectors == {<<a, b, c>> : a \in {0, 2}, b \in {0, 4}, c \in {0, 3}}
DriverLossFns == {f \in LossFns : f.reduction = "none" /\ f.kind = "MSE"}

\* dense mode without the division by two
ComposeNoHalf(supervision_, lambdas_, bce_loss, reg_loss, lm_loss, tv_loss) ==
    LET uv_loss ==
            IF supervision_ = "dense"
            THEN RAdd(RMul(R(lambdas_[2]), RAdd(reg_loss, lm_loss)),
                      RMul(R(lambdas_[3]), tv_loss))
            ELSE RAdd(RMul(R(lambdas_[2]), lm_loss),
                      RMul(R(lambdas_[3]), tv_loss))
    IN  IF supervision_ \notin {"dense", "sparse"}
        THEN [ok |-> FALSE, err |-> "UnboundLocalError: uv_loss"]
        ELSE [ok |-> TRUE, err |-> "none", uv_loss |-> uv_loss,
              loss |-> RAdd(RMul(R(lambdas_[1]), bce_loss), uv_loss)]

\* an else branch that takes every other supervision as sparse
ComposeElseSparse(supervision_, lambdas_, bce_loss, reg_loss, lm_loss, tv_loss) ==
    LET uv_loss ==
            IF supervision_ = "dense"
            THEN RAdd(RDiv(RMul(R(lambdas_[2]), RAdd(reg_loss, lm_loss)), R(2)),
                      RMul(R(lambdas_[3]), tv_loss))
            ELSE RAdd(RMul(R(lambdas_[2]), lm_loss),
                      RMul(R(lambdas_[3]), tv_loss))
    IN  [ok |-> TRUE, err |-> "none", uv_loss |-> uv_loss,
         loss |-> RAdd(RMul(R(lambdas_[1]), bce_loss), uv_loss)]

\* sparse mode that keeps the dense regression term
ComposeSparseWithReg(supervision_, lambdas_, bce_loss, reg_loss, lm_loss, tv_loss) ==
    LET uv_loss ==
            RAdd(RDiv(RMul(R(lambdas_[2]), RAdd(reg_loss, lm_loss)), R(2)),
                 RMul(R(lambdas_[3]), tv_loss))
    IN  IF supervision_ \notin {"dense", "sparse"}
        THEN [ok |-> FALSE, err |-> "UnboundLocalError: uv_loss"]
        ELSE [ok |-> TRUE, err |-> "none", uv_loss |-> uv_loss,
              loss |-> RAdd(RMul(R(lambdas_[1]), bce_loss), uv_loss)]

\* lines 206-210: uv_loss is bound only by the two branches, so any other
\* supervision raises at the first use of uv_loss in line 210
Compose(supervision_, lambdas_, bce_loss, reg_loss, lm_loss, tv_loss) ==
    LET uv_loss ==
            IF supervision_ = "dense"
            THEN RAdd(RDiv(RMul(R(lambdas_[2]), RAdd(reg_loss, lm_loss)), R(2)),
                      RMul(R(lambdas_[3]), tv_loss))
            ELSE RAdd(RMul(R(lambdas_[2]), lm_loss),
                      RMul(R(lambdas_[3]), tv_loss))
    IN  IF supervision_ \notin {"dense", "sparse"}
        THEN [ok |-> FALSE, err |-> "UnboundLocalError: uv_loss"]
        ELSE [ok |-> TRUE, err |-> "none", uv_loss |-> uv_loss,
              loss |-> RAdd(RMul(R(lambdas_[1]), bce_loss), uv_loss)]

\* seg_hat, uv_hat = model(img): the predicted correspondence map
ModelUvHat(img) == PredUvTensor(img)

\* lines 206-210 once the four terms are there: the first exception raised
\* while they were computed, or the composed losses
FinishLosses(uv_hat, bce_loss, reg, lmr, tvr, lambdas_, supervision_) ==
    IF ~reg.ok THEN [ok |-> FALSE, err |-> reg.err]
    ELSE IF ~lmr.ok THEN [ok |-> FALSE, err |-> lmr.err]
    ELSE IF ~tvr.ok THEN [ok |-> FALSE, err |-> tvr.err]
    ELSE IF ~Compose(supervision_, lambdas_, bce_loss, reg.val, lmr.val,
                     tvr.val).ok
    THEN [ok |-> FALSE,
          err |-> Compose(supervision_, lambdas_, bce_loss, reg.val, lmr.val,
                          tvr.val).err]
    ELSE [ok |-> TRUE, err |-> "none", uv_hat |-> uv_hat,
          bce_loss |-> bce_loss, reg_loss |-> reg.val, lm_loss |-> lmr.val]
         @@ [f \in {"loss", "uv_loss"} |->
                Compose(supervision_, lambdas_, bce_loss, reg.val, lmr.val,
                        tvr.val)[f]]

\* x.mean() of a loss function's (B, C) result; a failure is passed on
MeanOf(r) == IF r.ok THEN OkResult(Mean2(r.val)) ELSE r

\* lines 200-204 and then 206-210 for one batch: the five losses, or the
\* exception raised.  A term whose weight is zero is the int 0 and its
\* function is not called.
ForwardLosses(img, lm, seg, uv, lambdas_, supervision_, loss_fn) ==
    FinishLosses(
        ModelUvHat(img),
        IF lambdas_[1] # 0 THEN BceOf(img) ELSE R(0),
        IF lambdas_[2] # 0
        THEN MeanOf(BalancedNormalizedUvLoss(ModelUvHat(img), uv, loss_fn))
        ELSE OkResult(R(0)),
        IF lambdas_[2] # 0
        THEN MeanOf(LandmarkUvLoss(ModelUvHat(img), lm, LmUvValues,
                                   loss_fn).result)
        ELSE OkResult(R(0)),
        IF lambdas_[3] # 0
        THEN MeanOf(TotalVariation(ModelUvHat(img), seg))
        ELSE OkResult(R(0)),
        lambdas_, supervision_)

-----------------------------------------------------------------------------
(* The heatmap drivers' per-batch quantities.  The Gaussian target and the *)
(* peak extraction (extract_kpts_from_heatmap) are not computed: the error *)
(* of every predicted landmark and the MSE are fixed per sample kind and   *)
(* stand for arbitrary finite outputs of the network.                      *)

\* F.mse_loss(heatmap_hat, heatmap)
MseOf(img) ==
    Mean1([b \in DOMAIN img |->
        CASE img[b] = "full" -> R(0)
          [] img[b] = "absent" -> R(3)
          [] OTHER -> Norm(1, 3)])

\* tre[b][n] = ||lm - lm_hat|| * PIXEL_RESOLUTION_MM
TreOf(img) ==
    [b \in DOMAIN img |-> [n \in 1..TotalLandmarks(NClasses) |->
        CASE img[b] = "full" -> R(0)
          [] img[b] = "absent" -> R(n)
          [] OTHER -> R(1)]]

\* tre[:, start_idx:end_idx].mean() for every anatomical structure
TreOrgan(tre) ==
    [c \in Classes |->
        LET idx == (DOMAIN tre) \X
                   ((TotalLandmarks(c - 1) + 1)..TotalLandmarks(c))
        IN  RMean([i \in idx |-> tre[i[1]][i[2]]], idx)]

\* tre.mean()
TreMean(tre) ==
    LET idx == (DOMAIN tre) \X (1..TotalLandmarks(NClasses))
    IN  RMean([i \in idx |-> tre[i[1]][i[2]]], idx)

\* lambda_loss of forward_heatmap_and_seg
LambdaLosses == {Norm(1, 2), Norm(1, 4)}

-----------------------------------------------------------------------------
(* One epoch pass *)

Drivers == {"forward", "forward_heatmap", "forward_heatmap_and_seg"}

\* the asserting and mode-setting prologue with the two checks swapped
EnterModeFirst(fn_, lambdas_, mode_, training_) ==
    IF mode_ = "train"
    THEN [err |-> IF fn_ = "forward" /\ \A i \in 1..3 : lambdas_[i] = 0
                  THEN "AssertionError: At least one weighting for loss must be non-zero"
                  ELSE "none",
          training |-> TRUE, calls |-> <<Call("model.train", <<>>)>>]
    ELSE IF mode_ \in {"test", "val"}
    THEN [err |-> IF fn_ = "forward" /\ \A i \in 1..3 : lambdas_[i] = 0
                  THEN "AssertionError: At least one weighting for loss must be non-zero"
                  ELSE "none",
          training |-> FALSE, calls |-> <<Call("model.eval", <<>>)>>]
    ELSE [err |-> "ValueError: Unknown mode", training |-> training_,
          calls |-> <<>>]

\* lines 172-179 (forward), 255-260 and 328-333 (the heatmap drivers)
EnterOutcome(fn_, lambdas_, mode_, training_) ==
    IF fn_ = "forward" /\ \A i \in 1..3 : lambdas_[i] = 0
    THEN [err |-> "AssertionError: At least one weighting for loss must be non-zero",
          training |-> training_, calls |-> <<>>]
    ELSE IF mode_ = "train"
    THEN [err |-> "none", training |-> TRUE,
          calls |-> <<Call("model.train", <<>>)>>]
    ELSE IF mode_ \in {"test", "val"}
    THEN [err |-> "none", training |-> FALSE,
          calls |-> <<Call("model.eval", <<>>)>>]
    ELSE [err |-> "ValueError: Unknown mode", training |-> training_,
          calls |-> <<>>]

\* gradient tracking and the optimizer block switched on in every mode
GradAlways(training_) == TRUE

\* torch.set_grad_enabled(model.training)
GradEnabled(training_) == training_

BackwardAlways(training_) == TRUE

\* if model.training:  # backward
BackwardEnabled(training_) == training_

\* a count of one per append whatever the batch holds
BatchSizeOne(img) == 1

\* batch_size = len(img); B, _, H, W = img.shape
BatchSize(img) == Len(img)

(* data_aug: an external callable.  Of the outputs it can return the model *)
(* draws three: the batch unchanged, everything moved out of the frame, and *)
(* the correspondence values lost (all NaN) under an unchanged mask.        *)
AugChoices(fn_) ==
    IF fn_ = "forward" THEN {"identity", "out_of_frame", "uv_lost"}
    ELSE {"identity", "out_of_frame"}

AllAbsent(img) == [b \in DOMAIN img |-> "absent"]

\* torch.where(seg.bool().unsqueeze(2).expand_as(uv), uv, torch.nan)
MaskUv(seg, uv) ==
    [b \in DOMAIN uv |-> [c \in Classes |-> [k \in UVs |-> [y \in Ys |->
        [x \in Xs |-> IF seg[b][c][y][x] THEN uv[b][c][k][y][x] ELSE NaN]]]]]

\* the batch the loader yields for the sample kinds img
LoadBatch(img) ==
    [img |-> img, lm |-> LandmarkTensor(img), seg |-> SegTensor(img),
     uv |-> GtUvTensor(img)]

\* lines 195-197 (forward), 271 and 347 (the heatmap drivers)
Augment(fn_, batch, choice) ==
    LET out == CASE choice = "identity" -> batch
                 [] choice = "out_of_frame" -> LoadBatch(AllAbsent(batch.img))
                 [] OTHER -> [batch EXCEPT !.uv = GtUvTensor(AllAbsent(batch.img))]
    IN  IF fn_ = "forward" THEN [out EXCEPT !.uv = MaskUv(out.seg, out.uv)]
        ELSE out

Init ==
    /\ fn \in Drivers
    /\ mode \in Modes
    /\ \/ /\ fn = "forward"
          /\ lambdas \in LambdaVectors
          /\ supervision \in Supervisions
       \/ /\ fn = "forward_heatmap"
          /\ lambdas = <<>>
          /\ supervision = "none"
       \/ /\ fn = "forward_heatmap_and_seg"
          /\ lambdas \in {<<l>> : l \in LambdaLosses}
          /\ supervision = "none"
    /\ uv_loss_fn \in DriverLossFns
    /\ data_aug \in BOOLEAN
    /\ training0 \in BOOLEAN
    /\ training = training0
    /\ params = 0
    /\ data_loader \in [first : 1..Len(KindOrder), batch_size : 1..MaxBatch,
                       pos : {0}, exhausted : {FALSE}]
    /\ cur = <<>> /\ res = <<>> /\ calls = <<>>
    /\ loss_collector = <<>> /\ tre_collector = <<>>
    /\ uv_l1 = <<>> /\ tv = <<>> /\ reports = <<>>
    /\ pc = "enter" /\ err = "none"
    /\ args0 = <<>> /\ args = <<>> /\ outs = <<>>
    /\ script = <<>>

\* the assertions, the mode switch and the construction of the collectors
Enter ==
    /\ pc = "enter"
    /\ training' = EnterOutcome(fn, lambdas, mode, training).training
    /\ calls' = calls \o EnterOutcome(fn, lambdas, mode, training).calls
    /\ err' = EnterOutcome(fn, lambdas, mode, training).err
    /\ IF err' # "none"
       THEN /\ pc' = "failed"
            /\ UNCHANGED <<loss_collector, tre_collector, uv_l1, tv>>
       ELSE /\ pc' = "loop"
            /\ loss_collector' = CumulativeAverage
            /\ tre_collector' = IF fn = "forward" THEN tre_collector
                                ELSE CumulativeAverage
            /\ uv_l1' = <<>>
            /\ tv' = <<>>
    /\ UNCHANGED <<script, fn, mode, lambdas, supervision, data_aug, uv_loss_fn,
                   training0, params, data_loader, cur, res, reports,
                   args0, args, outs>>

(* The DataLoader walks a dataset in order (shuffle=False) and yields     *)
(* chunks of batch_size samples; the last chunk is smaller when the length *)
(* of the dataset is no multiple of batch_size (drop_last=False).  The     *)
(* dataset repeats KindOrder from position first; its length is not fixed  *)
(* in advance: the loader may stop after any chunk.                        *)
DatasetKind(first, i) == KindOrder[((first + i - 2) % Len(KindOrder)) + 1]

Chunk(dl, n) == [b \in 1..n |-> DatasetKind(dl.first, dl.pos + b)]

\* the loader yields a batch; .to(device); the augmentation in training
NextBatch ==
    /\ pc = "loop"
    /\ ~data_loader.exhausted
    /\ \E n \in 1..data_loader.batch_size :
       /\ data_loader.pos + n <= MaxSamples
       /\ data_loader' = [data_loader EXCEPT !.pos = @ + n,
                             !.exhausted = (n < data_loader.batch_size)]
       /\ LET img == Chunk(data_loader, n) IN
          IF data_aug /\ training
          THEN \E choice \in AugChoices(fn) :
                  /\ cur' = Augment(fn, LoadBatch(img), choice)
                  /\ calls' = calls \o <<Call("next", Len(img)),
                                         Call("data_aug", choice)>>
          ELSE /\ cur' = LoadBatch(img)
               /\ calls' = Append(calls, Call("next", Len(img)))
    /\ res' = <<>>
    /\ pc' = "forward"
    /\ UNCHANGED <<script, fn, mode, lambdas, supervision, data_aug, uv_loss_fn,
                   training0, training, params, loss_collector,
                   tre_collector, uv_l1, tv, reports, err, args0, args, outs>>

\* the losses of the driver running, from the network's output for cur
DriverLosses ==
    CASE fn = "forward" ->
            ForwardLosses(cur.img, cur.lm, cur.seg, cur.uv, lambdas,
                          supervision, uv_loss_fn)
      [] fn = "forward_heatmap" ->
            [ok |-> TRUE, err |-> "none", loss |-> MseOf(cur.img)]
      [] OTHER ->
            [ok |-> TRUE, err |-> "none",
             seg_loss |-> BceOf(cur.img), heatmap_loss |-> MseOf(cur.img),
             loss |-> RAdd(RMul(lambdas[1], BceOf(cur.img)),
                           RMul(RSub(R(1), lambdas[1]), MseOf(cur.img)))]

\* with torch.set_grad_enabled(model.training): the network and the losses
Forward ==
    /\ pc = "forward"
    /\ calls' = Append(calls, Call("model", GradEnabled(training)))
    /\ res' = DriverLosses
    /\ pc' = IF ~res'.ok THEN "failed"
             ELSE IF BackwardEnabled(training) THEN "backward" ELSE "track"
    /\ err' = res'.err
    /\ UNCHANGED <<script, fn, mode, lambdas, supervision, data_aug, uv_loss_fn,
                   training0, training, params, data_loader, cur,
                   loss_collector, tre_collector, uv_l1, tv, reports,
                   args0, args, outs>>

\* optimizer.zero_grad(set_to_none=True); loss.backward(); optimizer.step()
Backward ==
    /\ pc = "backward"
    /\ calls' = calls \o <<Call("optimizer.zero_grad", <<>>),
                           Call("loss.backward", res.loss),
                           Call("optimizer.step", <<>>)>>
    /\ params' = params + 1
    /\ pc' = "track"
    /\ UNCHANGED <<script, fn, mode, lambdas, supervision, data_aug, uv_loss_fn,
                   training0, training, data_loader, cur, res, loss_collector,
                   tre_collector, uv_l1, tv, reports, err, args0, args, outs>>

\* a metric called on a batch: the rows are buffered unless the call raised
ExtendIfOk(buffer, r) == IF r.ok THEN MetricExtend(buffer, r.val) ELSE buffer

\* the exception of the first of two calls that raised
FirstError(r1, r2) == IF ~r1.ok THEN r1.err ELSE r2.err

\* the metric calls of lines 220-222 that were reached
MetricCalls(l1) ==
    IF l1.ok THEN <<Call("dsc", <<>>), Call("uv_l1", <<>>), Call("tv", <<>>)>>
    ELSE <<Call("dsc", <<>>), Call("uv_l1", <<>>)>>

\* forward, lines 218-222
TrackForward ==
    /\ fn = "forward"
    /\ loss_collector' = CumulativeAppend(loss_collector,
            <<res.loss, res.bce_loss, res.uv_loss, res.reg_loss, res.lm_loss>>,
            BatchSize(cur.img))
    /\ calls' = calls
          \o <<Call("loss_collector.append",
                    <<loss_collector'.val, BatchSize(cur.img)>>)>>
          \o MetricCalls(UvL1Loss(res.uv_hat, cur.uv))
    /\ uv_l1' = ExtendIfOk(uv_l1, UvL1Loss(res.uv_hat, cur.uv))
    /\ tv' = IF UvL1Loss(res.uv_hat, cur.uv).ok
             THEN ExtendIfOk(tv, TotalVariation(res.uv_hat, cur.seg))
             ELSE tv
    /\ err' = FirstError(UvL1Loss(res.uv_hat, cur.uv),
                         TotalVariation(res.uv_hat, cur.seg))
    /\ pc' = IF err' = "none" THEN "loop" ELSE "failed"
    /\ UNCHANGED tre_collector

\* the values appended to loss_collector by the heatmap drivers
HeatmapVal(fn_, r, tre) ==
    IF fn_ = "forward_heatmap" THEN <<r.loss, TreMean(tre)>>
    ELSE <<r.loss, TreMean(tre), r.seg_loss, r.heatmap_loss>>

\* forward_heatmap, lines 306-313; forward_heatmap_and_seg, lines 371-379
TrackHeatmap ==
    /\ fn # "forward"
    /\ tre_collector' = CumulativeAppend(tre_collector,
            TreOrgan(TreOf(cur.img)), BatchSize(cur.img))
    /\ loss_collector' = CumulativeAppend(loss_collector,
            HeatmapVal(fn, res, TreOf(cur.img)), BatchSize(cur.img))
    /\ calls' = calls
          \o (IF fn = "forward_heatmap" THEN <<>> ELSE <<Call("dsc", <<>>)>>)
          \o <<Call("tre_collector.append",
                    <<tre_collector'.val, BatchSize(cur.img)>>),
               Call("loss_collector.append",
                    <<loss_collector'.val, BatchSize(cur.img)>>)>>
    /\ pc' = "loop"
    /\ UNCHANGED <<uv_l1, tv, err>>

Track ==
    /\ pc = "track"
    /\ (TrackForward \/ TrackHeatmap)
    /\ UNCHANGED <<script, fn, mode, lambdas, supervision, data_aug, uv_loss_fn,
                   training0, training, params, data_loader, cur, res, reports,
                   args0, args, outs>>

Scalar(title, value) ==
    [kind |-> "scalar", title |-> title, series |-> mode, value |-> value]
Histogram(title, values) ==
    [kind |-> "histogram", title |-> title, series |-> mode, value |-> values]

\* forward, lines 227-247
ForwardReports(loss_avg) ==
    <<Scalar("Loss", loss_avg[1])>>
    \o (IF lambdas[1] # 0
        THEN <<Scalar("BCE", loss_avg[2]), Scalar("Dice", "dsc"),
               Histogram("Dice", "dsc")>>
        ELSE <<>>)
    \o (IF lambdas[2] # 0 \/ lambdas[3] # 0
        THEN <<Scalar("UV Loss", loss_avg[3]),
               Scalar("UV L1", Mean1(MetricAggregate(uv_l1))),
               Histogram("UV L1", MetricAggregate(uv_l1)),
               Scalar("TV Loss", Mean1(MetricAggregate(tv))),
               Histogram("TV Loss", MetricAggregate(tv))>>
             \o (IF lambdas[2] # 0
                 THEN <<Scalar("Regression UV Loss", loss_avg[4]),
                        Scalar("Landmark UV Loss", loss_avg[5])>>
                 ELSE <<>>)
        ELSE <<>>)

\* forward_heatmap, lines 318-321; forward_heatmap_and_seg, lines 384-393
HeatmapReports(loss_avg) ==
    IF fn = "forward_heatmap"
    THEN <<Scalar("Loss", loss_avg[1]), Scalar("TRE [mm]", loss_avg[2]),
           Histogram("TRE [mm]", CumulativeAggregate(tre_collector))>>
    ELSE <<Scalar("Loss", loss_avg[1]), Scalar("BCE", loss_avg[3]),
           Scalar("Heatmap MSE", loss_avg[4]), Scalar("TRE [mm]", loss_avg[2]),
           Histogram("TRE [mm]", CumulativeAggregate(tre_collector)),
           Scalar("Dice", "dsc"), Histogram("Dice", "dsc")>>

\* the loader is exhausted: aggregate and report.  aggregate() of a
\* collector nothing was appended to is the int 0, and loss_avg[0] raises
Log ==
    /\ pc = "loop"
    /\ calls' = calls \o <<Call("Logger.current_logger", <<>>),
                           Call("loss_collector.aggregate", <<>>)>>
    /\ IF loss_collector.val = <<>>
       THEN /\ pc' = "failed"
            /\ err' = "TypeError: 'int' object is not subscriptable"
            /\ reports' = reports
       ELSE /\ reports' = IF fn = "forward"
                          THEN ForwardReports(CumulativeAggregate(loss_collector))
                          ELSE HeatmapReports(CumulativeAggregate(loss_collector))
            /\ pc' = "done"
            /\ err' = err
    /\ UNCHANGED <<script, fn, mode, lambdas, supervision, data_aug, uv_loss_fn,
                   training0, training, params, data_loader, cur, res,
                   loss_collector, tre_collector, uv_l1, tv, args0, args, outs>>

Next ==
    \/ Enter
    \/ NextBatch
    \/ Forward
    \/ Backward
    \/ Track
    \/ Log

Spec == Init /\ [][Next]_vars

-----------------------------------------------------------------------------
(* train_heatmap.py: the epochs of the heatmap training script *)

\* largest hp.epochs
MaxEpochs == 3

\* def forward_heatmap(mode, data_loader, epoch, model, optimizer, device,
\*                     std_pixel, alpha, data_aug=None)
ForwardHeatmapParams ==
    <<"mode", "data_loader", "epoch", "model", "optimizer", "device",
      "std_pixel", "alpha", "data_aug">>
ForwardHeatmapRequired ==
    {"mode", "data_loader", "epoch", "model", "optimizer", "device",
     "std_pixel", "alpha"}
ForwardHeatmapOptional == {"data_aug"}

\* the parameters the script's three positional arguments fill, in order
PositionalArgs == <<"mode", "data_loader", "epoch">>

\* fwd_kwargs = {'model': ..., 'optimizer': ..., 'device': ..., 'data_aug': ...,
\*               'std_pixel': hp.std}: the keys of the dict in insertion order,
\* which is the order `**fwd_kwargs` passes the keywords in
FwdKwargs == <<"model", "optimizer", "device", "data_aug", "std_pixel">>

NamesOf(seq) == {seq[i] : i \in DOMAIN seq}

\* the keywords of a call that do not bind: those naming no parameter and
\* those naming a parameter a positional argument has filled
OffendingKeywords(positional, kwargs) ==
    {i \in DOMAIN kwargs :
        \/ kwargs[i] \notin NamesOf(ForwardHeatmapParams)
        \/ kwargs[i] \in NamesOf(positional)}

\* the required parameters a call leaves unfilled, in the signature's order
MissingParams(positional, kwargs) ==
    LET unfilled(p) == /\ p \in ForwardHeatmapRequired
                       /\ p \notin NamesOf(positional) \cup NamesOf(kwargs)
    IN  SelectSeq(ForwardHeatmapParams, unfilled)

Numeral == <<"1", "2", "3", "4", "5", "6", "7", "8">>

\* the names of a TypeError's message: 'a' / 'a' and 'b' / 'a', 'b', and 'c'
RECURSIVE QuotedNames(_)
QuotedNames(names) ==
    IF Len(names) = 1 THEN "'" \o names[1] \o "'"
    ELSE IF Len(names) = 2
    THEN "'" \o names[1] \o "' and '" \o names[2] \o "'"
    ELSE IF Len(names) = 3
    THEN "'" \o names[1] \o "', '" \o names[2] \o "', and '" \o names[3] \o "'"
    ELSE "'" \o names[1] \o "', " \o QuotedNames(Tail(names))

\* Python's binding of a call's arguments to forward_heatmap's parameters:
\* the positional arguments fill the first parameters, the keywords are then
\* taken in the order they are passed and the first that does not bind raises,
\* and at last the required parameters left unfilled are reported together.
BindArguments(positional, kwargs) ==
    IF OffendingKeywords(positional, kwargs) # {}
    THEN LET first == CHOOSE i \in OffendingKeywords(positional, kwargs) :
                          \A j \in OffendingKeywords(positional, kwargs) : i <= j
         IN  IF kwargs[first] \notin NamesOf(ForwardHeatmapParams)
             THEN "TypeError: forward_heatmap() got an unexpected keyword argument '"
                  \o kwargs[first] \o "'"
             ELSE "TypeError: forward_heatmap() got multiple values for argument '"
                  \o kwargs[first] \o "'"
    ELSE IF MissingParams(positional, kwargs) # <<>>
    THEN "TypeError: forward_heatmap() missing "
         \o Numeral[Len(MissingParams(positional, kwargs))]
         \o " required positional argument"
         \o (IF Len(MissingParams(positional, kwargs)) = 1 THEN "" ELSE "s")
         \o ": " \o QuotedNames(MissingParams(positional, kwargs))
    ELSE "none"

\* one iteration of `for epoch in trange(hp.epochs)`, lines 61-68: the calls
\* made, and the exception that ended the script if one was raised.  A call
\* whose arguments do not bind raises before forward_heatmap runs.
EpochBody(s) ==
    IF BindArguments(PositionalArgs, s.fwd_kwargs) # "none"
    THEN [err |-> BindArguments(PositionalArgs, s.fwd_kwargs), calls |-> <<>>]
    ELSE [err |-> "none",
          calls |-> <<Call("forward_heatmap", <<"train", "train_dl", s.epoch>>),
                      Call("forward_heatmap", <<"val", "val_dl", s.epoch>>)>>
                    \o (IF s.lr_scheduler
                        THEN <<Call("scheduler.step", <<>>),
                               Call("report_scalar", "Learning rate")>>
                        ELSE <<>>)]

InitTrain ==
    /\ script \in [epochs : 0..MaxEpochs, epoch : {0},
                   lr_scheduler : BOOLEAN, use_data_aug : BOOLEAN,
                   batch_size : 1..MaxBatch, infer_batch_size : 1..MaxBatch,
                   fwd_kwargs : {FwdKwargs}]
    /\ fn = "train_heatmap" /\ mode = "none" /\ lambdas = <<>>
    /\ supervision = "none" /\ data_aug = script.use_data_aug
    /\ uv_loss_fn = "none"
    /\ training0 = TRUE /\ training = TRUE /\ params = 0
    /\ data_loader = <<>> /\ cur = <<>> /\ res = <<>> /\ calls = <<>>
    /\ loss_collector = <<>> /\ tre_collector = <<>> /\ uv_l1 = <<>>
    /\ tv = <<>> /\ reports = <<>>
    /\ pc = "epochs" /\ err = "none"
    /\ args0 = <<>> /\ args = <<>> /\ outs = <<>>

\* lines 60-68: the body of the loop for the next epoch index
TrainEpoch ==
    /\ pc = "epochs"
    /\ script.epoch < script.epochs
    /\ calls' = calls \o EpochBody(script).calls
    /\ err' = EpochBody(script).err
    /\ IF err' = "none"
       THEN /\ script' = [script EXCEPT !.epoch = @ + 1]
            /\ pc' = "epochs"
       ELSE /\ script' = script
            /\ pc' = "failed"
    /\ UNCHANGED <<fn, mode, lambdas, supervision, data_aug, uv_loss_fn,
                   training0, training, params, data_loader, cur, res,
                   loss_collector, tre_collector, uv_l1, tv, reports,
                   args0, args, outs>>

\* lines 70-74, after the loop
SaveModel ==
    /\ pc = "epochs"
    /\ script.epoch = script.epochs
    /\ calls' = calls \o <<Call("model.save", "kpts_unet.pth"),
                           Call("task.update_output_model", "final_model"),
                           Call("task.close", <<>>)>>
    /\ pc' = "saved"
    /\ UNCHANGED <<script, fn, mode, lambdas, supervision, data_aug, uv_loss_fn,
                   training0, training, params, data_loader, cur, res,
                   loss_collector, tre_collector, uv_l1, tv, reports, err,
                   args0, args, outs>>

NextTrain ==
    \/ TrainEpoch
    \/ SaveModel

SpecTrain == InitTrain /\ [][NextTrain]_vars

-----------------------------------------------------------------------------
(* The optimizer block *)

CycleOps == <<"next", "model", "optimizer.zero_grad", "loss.backward",
              "optimizer.step">>
IsCycleCall(c) == \E i \in DOMAIN CycleOps : c.op = CycleOps[i]
CycleCalls == SelectSeq(calls, IsCycleCall)
IsStepCall(c) == c.op = "optimizer.step"
IsOptimizerCall(c) ==
    c.op \in {"optimizer.zero_grad", "loss.backward", "optimizer.step"}

\* C1: in mode 'train' every batch pulled is followed by its model forward
\* with gradients tracked, then exactly one zero_grad, one backward and one
\* step, in that order, and the parameters are updated once per step; in
\* mode 'val' or 'test' no zero_grad, backward or step is ever called, every
\* model forward runs with gradient tracking disabled and the parameters
\* stay as they were.  This holds for the three drivers.
C1_OptimizerBlock ==
    /\ (fn \in Drivers /\ mode = "train") =>
          /\ \A i \in DOMAIN CycleCalls :
                /\ CycleCalls[i].op = CycleOps[((i - 1) % Len(CycleOps)) + 1]
                /\ CycleCalls[i].op = "model" => CycleCalls[i].arg = TRUE
          /\ pc \in {"track", "loop", "done"} =>
                Len(CycleCalls) % Len(CycleOps) = 0
          /\ pc = "backward" => Len(CycleCalls) % Len(CycleOps) = 2
          /\ params = Len(SelectSeq(calls, IsStepCall))
    /\ (fn \in Drivers /\ mode \in {"val", "test"}) =>
          /\ \A i \in DOMAIN calls :
                /\ ~IsOptimizerCall(calls[i])
                /\ calls[i].op = "model" => calls[i].arg = FALSE
          /\ params = 0
          /\ pc \notin {"enter", "failed"} => ~training

\* a training pass over two batches that ran to the end
C1_Witness == mode = "train" /\ pc = "done" /\ params = 2

-----------------------------------------------------------------------------
(* Configuration errors *)

C2_BadConfig ==
    /\ fn = "forward"
    /\ \/ \A i \in 1..3 : lambdas[i] = 0
       \/ mode \notin {"train", "val", "test"}

\* C2: a call of forward with an all-zero weight vector or with a mode other
\* than 'train', 'val', 'test' fails before anything is done: the model's
\* training flag is as the caller left it, no batch was pulled, no model or
\* optimizer call was made, and nothing was reported.
C2_FailFast ==
    C2_BadConfig =>
        /\ pc \in {"enter", "failed"}
        /\ pc = "failed" => err # "none"
        /\ calls = <<>>
        /\ training = training0
        /\ data_loader.pos = 0
        /\ params = 0
        /\ reports = <<>>

\* all weights zero under a mode that would have flipped the training flag
C2_Witness ==
    /\ C2_BadConfig /\ pc = "failed"
    /\ mode = "train" /\ ~training0
    /\ err = "AssertionError: At least one weighting for loss must be non-zero"

C3_UnknownSupervision ==
    /\ fn = "forward"
    /\ supervision \notin {"dense", "sparse"}
    /\ mode \in {"train", "val", "test"}
    /\ \E i \in 1..3 : lambdas[i] # 0

\* C3: a call of forward whose supervision is neither 'dense' nor 'sparse',
\* under a valid mode and a weight vector with a non-zero entry, ends in a
\* fatal error whatever the loader yields: every step of such a pass either
\* enters the loop, pulls a batch, or fails; the forward of a batch that was
\* pulled always fails, and so does the end of a loop that pulled none.
C3_UnknownSupervisionFatal ==
    [][C3_UnknownSupervision =>
          \/ pc = "enter" /\ pc' = "loop"
          \/ pc = "loop" /\ data_loader'.pos > data_loader.pos /\ pc' = "forward"
          \/ pc = "loop" /\ data_loader.pos = 0 /\ pc' = "failed"
                /\ err' # "none"
          \/ pc = "forward" /\ pc' = "failed" /\ err' # "none"]_vars

\* the first batch reached line 210 and uv_loss was unbound
C3_Witness ==
    /\ C3_UnknownSupervision
    /\ pc = "failed" /\ err = "UnboundLocalError: uv_loss"
    /\ data_loader.pos > 0

-----------------------------------------------------------------------------
(* Zero weights and the ground truth *)

\* the outcome of lines 199-222 for one batch with ground truth uv_: whether
\* the batch is processed to the end, and the two losses if it is
Outcome(r, l1, tvr) ==
    IF r.ok /\ l1.ok /\ tvr.ok
    THEN [completes |-> TRUE, uv_loss |-> r.uv_loss, loss |-> r.loss]
    ELSE [completes |-> FALSE, uv_loss |-> NaN, loss |-> NaN]

RunBatch(batch, uv_, lambdas_, supervision_, loss_fn) ==
    Outcome(ForwardLosses(batch.img, batch.lm, batch.seg, uv_, lambdas_,
                          supervision_, loss_fn),
            UvL1Loss(ModelUvHat(batch.img), uv_),
            TotalVariation(ModelUvHat(batch.img), batch.seg))

\* C4: with a zero UV-regression weight the dense regression and its
\* assertion are not executed, so a batch whose ground-truth correspondence
\* map is all NaN is processed without failure.
C4_AllNaNBatchProcessed ==
    (/\ fn = "forward"
     /\ supervision \in {"dense", "sparse"}
     /\ lambdas[2] = 0
     /\ data_loader.pos > 0
     /\ UvAllNaN(cur.uv))
    => pc # "failed"

\* the ground-truth maps a batch of the same samples could carry instead
AltUvMaps(img) == {GtUvTensor(kinds) : kinds \in [DOMAIN img -> SampleKinds]}

\* C5: in sparse mode two runs over a batch that differ only in the
\* ground-truth correspondence map have the same combined UV loss and the
\* same total loss, and either both complete the batch or both fail.
C5_SparseIndependentOfGroundTruth ==
    (fn = "forward" /\ supervision = "sparse" /\ pc = "forward") =>
        \A uv2 \in AltUvMaps(cur.img) :
            RunBatch(cur, uv2, lambdas, supervision, uv_loss_fn)
                = RunBatch(cur, cur.uv, lambdas, supervision, uv_loss_fn)

-----------------------------------------------------------------------------
(* The dense composition *)

\* .mean() of a term, or 0 when its weight is zero
C6_Term(w, r) == IF w = 0 THEN R(0) ELSE Mean2(r.val)

C6_Expected ==
    RAdd(RAdd(RMul(R(lambdas[1]),
                   IF lambdas[1] = 0 THEN R(0) ELSE BceOf(cur.img)),
              RAdd(RMul(Norm(lambdas[2], 2),
                        C6_Term(lambdas[2],
                            BalancedNormalizedUvLoss(ModelUvHat(cur.img),
                                                     cur.uv, uv_loss_fn))),
                   RMul(Norm(lambdas[2], 2),
                        C6_Term(lambdas[2],
                            LandmarkUvLoss(ModelUvHat(cur.img), cur.lm,
                                           LmUvValues, uv_loss_fn).result)))),
         RMul(R(lambdas[3]),
              C6_Term(lambdas[3], TotalVariation(ModelUvHat(cur.img), cur.seg))))

\* C6: for every batch forward processes in dense mode the total loss is
\* w_seg * seg_loss + (w_uv / 2) * mean(dense regression loss)
\* + (w_uv / 2) * mean(sparse landmark loss) + w_tv * mean(total variation),
\* a term whose weight is zero being 0.
C6_DenseTotalLoss ==
    (fn = "forward" /\ supervision = "dense" /\ pc \in {"backward", "track"})
    => /\ res.ok
       /\ res.loss = C6_Expected

\* a dense batch with the three weights set and both halves non-zero
C6_Witness ==
    /\ fn = "forward" /\ supervision = "dense" /\ pc = "track"
    /\ \A i \in 1..3 : lambdas[i] # 0
    /\ res.reg_loss # R(0) /\ res.lm_loss # R(0)
    /\ res.reg_loss # res.lm_loss

-----------------------------------------------------------------------------
(* The loss functions called directly *)

\* the elementwise base loss summed over one (b, c) entry, nothing zeroed
C7_ElemSum(b, c) ==
    RSum([i \in Flat |->
            ElemLoss(args0.loss_fn, args0.uv_hat[b][c][i[1]][i[2]][i[3]],
                                    args0.uv[b][c][i[1]][i[2]][i[3]])], Flat)

\* every entry of every result of balanced_normalized_uv_loss on a ground
\* truth without NaN is the elementwise sum over a denominator of den
C7_EntriesAre(den) ==
    \A i \in DOMAIN outs.balanced_normalized_uv_loss :
        LET r == outs.balanced_normalized_uv_loss[i]
        IN  (r.ok /\ ~UvHasNaN(args0.uv)) =>
                \A b \in DOMAIN r.val : \A c \in Classes :
                    r.val[b][c] = RDiv(C7_ElemSum(b, c), R(den))

\* C7 as stated: on a ground truth without NaN every (b, c) entry is the
\* plain mean, the elementwise sum divided by the 2*H*W elements.
C7_PlainMean ==
    pc = "caller" => C7_EntriesAre(Cardinality(Flat))

\* C7, amended: on a ground truth without NaN every (b, c) entry is the
\* elementwise sum over the entry's 2*H*W elements, nothing zeroed, divided
\* by 2*H*W + 1.
C7_FlooredMean ==
    pc = "caller" => C7_EntriesAre(Cardinality(Flat) + 1)

\* a result on a ground truth without NaN whose entries are not zero
C7_Witness ==
    /\ pc = "caller"
    /\ ~UvHasNaN(args0.uv)
    /\ Len(args0.uv) = MaxBatch
    /\ outs.balanced_normalized_uv_loss # <<>>
    /\ outs.balanced_normalized_uv_loss[1].ok
    /\ \A b \in DOMAIN args0.uv : \A c \in Classes :
          RLt(R(0), outs.balanced_normalized_uv_loss[1].val[b][c])

\* the landmarks of class c in batch element b are all out of range
C8_AllOutside(b, c) ==
    \A n \in 1..Len(args0.landmark_uv_values[c]) :
        OutsidePoint(NormalizePixelCoordinates(
            args0.landmarks[b][AnatomyIdx(args0.landmark_uv_values, c) + n],
            H, W))

C8_MaskEmpty(b, c) == \A px \in Pixels : ~args0.mask[b][c][px[1]][px[2]]

C8_GtAllNaN(b, c) ==
    \A i \in Flat : IsNaN(args0.uv[b][c][i[1]][i[2]][i[3]])

\* C8: with a base loss of reduction none (both base losses give 0 on
\* (0, 0)) no call fails on a degenerate entry: landmark_uv_loss returns 0
\* at [b, c] when all landmarks of class c in element b are out of range,
\* total_variation returns 0 at [b, c] when the mask of (b, c) is empty, and
\* balanced_normalized_uv_loss, which fails only on a ground truth that is
\* NaN everywhere, returns 0 at [b, c] when the ground truth of (b, c) is
\* all NaN.
C8_DegenerateEntryIsZero ==
    (pc = "caller" /\ args0.loss_fn.reduction = "none") =>
        /\ \A i \in DOMAIN outs.landmark_uv_loss :
              /\ outs.landmark_uv_loss[i].ok
              /\ \A b \in DOMAIN args0.uv : \A c \in Classes :
                    C8_AllOutside(b, c) =>
                        outs.landmark_uv_loss[i].val[b][c] = R(0)
        /\ \A i \in DOMAIN outs.total_variation :
              /\ outs.total_variation[i].ok
              /\ \A b \in DOMAIN args0.uv : \A c \in Classes :
                    C8_MaskEmpty(b, c) =>
                        outs.total_variation[i].val[b][c] = R(0)
        /\ \A i \in DOMAIN outs.balanced_normalized_uv_loss :
              /\ outs.balanced_normalized_uv_loss[i].ok = ~UvAllNaN(args0.uv)
              /\ outs.balanced_normalized_uv_loss[i].ok =>
                    \A b \in DOMAIN args0.uv : \A c \in Classes :
                        C8_GtAllNaN(b, c) =>
                            outs.balanced_normalized_uv_loss[i].val[b][c] = R(0)

\* the three functions were called on a batch whose second element is
\* degenerate in a class that the first element has, with non-zero loss
C8_Witness ==
    /\ pc = "caller" /\ args0.loss_fn.reduction = "none"
    /\ Len(args0.uv) = 2
    /\ \E c \in Classes :
          /\ C8_AllOutside(2, c) /\ ~C8_AllOutside(1, c)
          /\ C8_MaskEmpty(2, c) /\ ~C8_MaskEmpty(1, c)
          /\ C8_GtAllNaN(2, c) /\ ~C8_GtAllNaN(1, c)
          /\ outs.landmark_uv_loss # <<>>
          /\ outs.landmark_uv_loss[1].val[1][c] # R(0)
          /\ outs.total_variation # <<>>
          /\ outs.total_variation[1].val[1][c] # R(0)
          /\ outs.balanced_normalized_uv_loss # <<>>
          /\ outs.balanced_normalized_uv_loss[1].val[1][c] # R(0)

\* C10: a call of landmark_uv_loss, balanced_normalized_uv_loss or
\* total_variation leaves every argument as it was (the maps, the landmarks,
\* the mask, the landmark_uv_values list and the tensors in it), and calls
\* repeated on the same arguments return the same result.
C10_NoHiddenState ==
    pc = "caller" =>
        /\ args = args0
        /\ \A i, j \in DOMAIN outs.landmark_uv_loss :
              outs.landmark_uv_loss[i] = outs.landmark_uv_loss[j]
        /\ \A i, j \in DOMAIN outs.balanced_normalized_uv_loss :
              outs.balanced_normalized_uv_loss[i]
                  = outs.balanced_normalized_uv_loss[j]
        /\ \A i, j \in DOMAIN outs.total_variation :
              outs.total_variation[i] = outs.total_variation[j]

\* landmark_uv_loss ran twice on a batch in which a class has landmarks
\* zeroed in one element and kept in another; the two others ran twice too
C10_Witness ==
    /\ pc = "caller" /\ args0.loss_fn.reduction = "none"
    /\ Len(args0.uv) = 2
    /\ \E c \in Classes : C8_AllOutside(2, c) /\ ~C8_AllOutside(1, c)
    /\ Len(outs.landmark_uv_loss) = 2
    /\ outs.landmark_uv_loss[2].ok
    /\ Len(outs.balanced_normalized_uv_loss) = 2
    /\ Len(outs.total_variation) = 2

-----------------------------------------------------------------------------
(* The running aggregators *)

IsNextCall(c) == c.op = "next"
IsLossAppend(c) == c.op = "loss_collector.append"
IsTreAppend(c) == c.op = "tre_collector.append"

\* sum(n_i * v_i[j]) / sum(n_i) over the appends a, each <<v_i, n_i>>
C9_WeightedMean(a, j) ==
    RDiv(RSum([i \in DOMAIN a |-> RMul(R(a[i].arg[2]), a[i].arg[1][j])],
              DOMAIN a),
         RSum([i \in DOMAIN a |-> R(a[i].arg[2])], DOMAIN a))

\* one append per batch pulled, with the size of that batch as count
C9_OnePerBatch(a) ==
    /\ Len(a) = Len(SelectSeq(calls, IsNextCall))
    /\ \A i \in DOMAIN a : a[i].arg[2] = SelectSeq(calls, IsNextCall)[i].arg

\* aggregate() of the collector ca is the weighted mean of its appends a
C9_AggregateIsMean(ca, a) ==
    a # <<>> =>
        \A j \in DOMAIN ca.val : CumulativeAggregate(ca)[j] = C9_WeightedMean(a, j)

\* C9: between two batches and at the end of a pass, loss_collector (and
\* tre_collector in the heatmap drivers) has received one append per batch
\* pulled, its count the size of that batch; aggregate() is the
\* count-weighted mean of the appended values, componentwise, and that is
\* the value reported as Loss (and as the TRE histogram).
C9_CountWeightedMean ==
    (fn \in Drivers /\ pc \in {"loop", "done"}) =>
        /\ C9_OnePerBatch(SelectSeq(calls, IsLossAppend))
        /\ C9_AggregateIsMean(loss_collector, SelectSeq(calls, IsLossAppend))
        /\ fn # "forward" =>
              /\ C9_OnePerBatch(SelectSeq(calls, IsTreAppend))
              /\ C9_AggregateIsMean(tre_collector,
                                    SelectSeq(calls, IsTreAppend))
        /\ pc = "done" =>
              /\ reports[1] = Scalar("Loss",
                    C9_WeightedMean(SelectSeq(calls, IsLossAppend), 1))
              /\ fn # "forward" =>
                    \E i \in DOMAIN reports :
                        reports[i] = Histogram("TRE [mm]",
                            [c \in Classes |->
                                C9_WeightedMean(SelectSeq(calls, IsTreAppend), c)])

\* a pass over a full batch and a smaller last batch with different losses
C9_Witness ==
    /\ fn \in Drivers /\ pc = "done"
    /\ Len(SelectSeq(calls, IsLossAppend)) = 2
    /\ SelectSeq(calls, IsLossAppend)[1].arg[2] = 2
    /\ SelectSeq(calls, IsLossAppend)[2].arg[2] = 1
    /\ SelectSeq(calls, IsLossAppend)[1].arg[1][1]
          # SelectSeq(calls, IsLossAppend)[2].arg[1][1]

-----------------------------------------------------------------------------
(* The ground truth handed to the losses *)

\* the NaN entries of uv are the complement of the mask seg, entry by entry
NaNIsComplementOfMask(seg, uv) ==
    \A b \in DOMAIN uv : \A c \in Classes : \A k \in UVs : \A px \in Pixels :
        IsNaN(uv[b][c][k][px[1]][px[2]]) <=> ~seg[b][c][px[1]][px[2]]

\* C11: in forward, the ground-truth correspondence map handed to the loss
\* functions and metrics has its NaN entries exactly where the segmentation
\* mask of the batch is false, for every batch; in train mode also after the
\* augmentation, whatever the augmentation returned, the loader's batches
\* satisfying this.
C11_NaNIsComplementOfMask ==
    (fn = "forward" /\ pc \in {"forward", "backward", "track"}) =>
        NaNIsComplementOfMask(cur.seg, cur.uv)

-----------------------------------------------------------------------------
(* The training script *)

IsPassCall(c) == c.op = "forward_heatmap"
IsSaveCall(c) == c.op = "model.save"

\* C12: the heatmap training script runs, for each epoch index 0..epochs-1
\* in order, one forward_heatmap pass in mode 'train' on the training loader
\* and then one in mode 'val' on the validation loader; no call lacks a
\* required parameter of forward_heatmap, so the script is not ended by a
\* call that does not bind; the model is saved only after all epochs.
C12_EveryEpochTrainThenVal ==
    fn = "train_heatmap" =>
        /\ pc # "failed"
        /\ Len(SelectSeq(calls, IsPassCall)) = 2 * script.epoch
        /\ \A i \in DOMAIN SelectSeq(calls, IsPassCall) :
              SelectSeq(calls, IsPassCall)[i].arg =
                  IF i % 2 = 1 THEN <<"train", "train_dl", (i - 1) \div 2>>
                  ELSE <<"val", "val_dl", (i - 1) \div 2>>
        /\ (pc = "saved") = (SelectSeq(calls, IsSaveCall) # <<>>)
        /\ pc = "saved" => script.epoch = script.epochs

=============================================================================
